---- MODULE Spec2Model ----
(***************************************************************************)
(* A model of regrada's trace proxy (cmd/trace.go) and eval runner         *)
(* (cmd/run.go, concatenated into src/cmd/trace.go).                       *)
(*                                                                         *)
(*  - LLMProxy.handleRequest, one instance per inbound connection, with    *)
(*    the mutex-guarded trace list, createTrace, flattenHeaders,           *)
(*    sanitizeBody and parseAPIDetails;                                    *)
(*  - runTrace: proxy start, the monitored child, the interrupt signal,    *)
(*    shutdown, drain, summary, save, baseline save and comparison;        *)
(*  - runEvals: runTest/runCheck, compareWithBaselineResults and the       *)
(*    exit code.                                                           *)
(***************************************************************************)
EXTENDS Integers, Sequences, FiniteSets, TLC

VARIABLES
    clock,        \* time.Now(): monotonic reading, in clock units
    accepting,    \* the proxy's listener is open (server.Serve running)
    providers,    \* DOMAIN of LLMProxy.providers
    hs,           \* one handleRequest activation per connection
    traces,       \* LLMProxy.traces
    mu,           \* LLMProxy.mu: 0 when free, else the holder
    out,          \* what each caller has received from the proxy
    runPc,        \* position of runTrace
    flags,        \* runTrace's arguments
    child,        \* the monitored process
    ctxCancelled, \* the context governing the child was cancelled
    sigPc,        \* position of the goroutine that waits for SIGINT/SIGTERM
    session,      \* *TraceSession of runTrace
    fs,           \* the files the commands read and write
    report,       \* what compareWithBaseline printed
    exitStatus,   \* exit status of the regrada process (-1 while running)
    evalPc,       \* position of runEvals
    evalIn,       \* runEvals' arguments and the loaded test suite
    evalResult,   \* *EvalResult of runEvals
    evalExit      \* value returned by runEvals (-1 before it returns)

proxyVars == <<clock, accepting, providers, hs, traces, mu, out>>
runVars == <<runPc, flags, child, ctxCancelled, sigPc, session, fs, report, exitStatus>>
evalVars == <<evalPc, evalIn, evalResult, evalExit>>
vars == <<clock, accepting, providers, hs, traces, mu, out, runPc, flags, child,
          ctxCancelled, sigPc, session, fs, report, exitStatus, evalPc, evalIn,
          evalResult, evalExit>>

(***************************************************************************)
(* Bounds of the model.                                                    *)
(***************************************************************************)
NReq == 2          \* connections the proxy serves in one run
MaxClock == 1      \* clock readings 0..MaxClock
MaxTests == 3      \* test cases in a suite
MaxBaseline == 2   \* test results in a baseline file
MaxSuite == 2      \* test cases in a suite of the runs that vary the checks
MaxChecks == 2     \* checks of a test case in those runs
MaxTraces == 2     \* traces of a session whose summary is compared

Reqs == 1..NReq

(***************************************************************************)
(* Program constants.                                                      *)
(***************************************************************************)
StatusBadGateway == 502
Millisecond == 2     \* time.Millisecond, in clock units
Redacted == "[REDACTED]"
DefaultProvider == "openai"
Running == 0 - 1   \* exitStatus while the regrada process has not exited

(***************************************************************************)
(* Bodies.  A []byte is modelled by what the code can observe of it: its   *)
(* length, whether it is a gzip stream (and of what), whether it parses    *)
(* as JSON (and to which document).                                        *)
(*   enc   "none": the bytes are the payload; "gzip": a gzip stream of    *)
(*         the payload, zsize bytes long; "bad": bytes that are no gzip    *)
(*         stream although labelled so                                     *)
(*   kind  "empty" | "json" | "text" (not valid JSON)                      *)
(*   q     the payload is the JSON-quoted form of the original bytes       *)
(***************************************************************************)
EmptyBody == [enc |-> "none", kind |-> "empty", size |-> 0, zsize |-> 0,
              doc |-> "", q |-> FALSE]

JsonBody(doc, size) == [enc |-> "none", kind |-> "json", size |-> size,
                        zsize |-> 0, doc |-> doc, q |-> FALSE]

TextBody(size) == [enc |-> "none", kind |-> "text", size |-> size, zsize |-> 0,
                   doc |-> "", q |-> FALSE]

GzipOf(b, zsize) == [b EXCEPT !.enc = "gzip", !.zsize = zsize]

\* len(body)
BodyLen(b) == IF b.enc = "gzip" THEN b.zsize ELSE b.size

\* gzip.NewReader + io.ReadAll: <<ok, bytes>>.  NewReader fails on bytes that
\* do not start a gzip stream, and the code then leaves responseBody nil.
Gunzip(b) ==
    IF b.enc = "gzip"
    THEN <<TRUE, [b EXCEPT !.enc = "none", !.zsize = 0]>>
    ELSE <<FALSE, EmptyBody>>

\* json.Unmarshal(body, &js) == nil for js interface{}
ValidJSON(b) == b.enc = "none" /\ b.kind = "json"

sanitizeBody(body) ==
    IF BodyLen(body) = 0 THEN EmptyBody
    ELSE IF ~ValidJSON(body)
         THEN [enc |-> "none", kind |-> "json", size |-> BodyLen(body) + 2,
               zsize |-> 0, doc |-> "", q |-> TRUE]
         ELSE body

(***************************************************************************)
(* JSON documents, as json.Unmarshal decodes them into interface{}.        *)
(***************************************************************************)
JAbsent == [t |-> "absent", v |-> 0]
JNum(n) == [t |-> "num", v |-> n]
JStr(s) == [t |-> "str", v |-> s]
JArr(s) == [t |-> "arr", v |-> s]
JObj(f) == [t |-> "obj", v |-> f]
NoFields == [k \in {} |-> JAbsent]

\* m[key] on a map[string]interface{} (nil maps included)
Field(m, key) == IF key \in DOMAIN m THEN m[key] ELSE JAbsent

\* x.(map[string]interface{}): the map, or the nil map when the assertion fails
AsMap(x) == IF x.t = "obj" THEN x.v ELSE NoFields
IsMap(x) == x.t = "obj"

DocOf(doc) ==
    CASE doc = "req_gpt" ->
           JObj("model" :> JStr("gpt-4"))
      [] doc = "req_claude" ->
           JObj("model" :> JStr("claude-3"))
      [] doc = "req_nomodel" ->
           JObj("prompt" :> JStr("hi"))
      [] doc = "resp_openai" ->
           JObj("usage" :> JObj("prompt_tokens" :> JNum(10)
                                @@ "completion_tokens" :> JNum(5)))
      [] doc = "resp_openai_tool" ->
           JObj("usage" :> JObj("prompt_tokens" :> JNum(4)
                                @@ "completion_tokens" :> JNum(2))
                @@ "choices" :> JArr(<<
                     JObj("message" :> JObj("tool_calls" :> JArr(<<
                       JObj("id" :> JStr("call_1")
                            @@ "function" :> JObj(
                                 "name" :> JStr("refund.create")
                                 @@ "arguments" :> JStr("{}")))
                     >>)))
                   >>))
      [] doc = "resp_anthropic" ->
           JObj("usage" :> JObj("input_tokens" :> JNum(7)
                                @@ "output_tokens" :> JNum(3))
                @@ "content" :> JArr(<<
                     JObj("type" :> JStr("text")),
                     JObj("type" :> JStr("tool_use")
                          @@ "id" :> JStr("tu_1")
                          @@ "name" :> JStr("search")
                          @@ "input" :> JObj(NoFields))
                   >>))
      [] doc = "resp_error" ->
           JObj("error" :> JStr("overloaded"))
      [] doc = "resp_openai_badargs" ->
           JObj("choices" :> JArr(<<
                  JObj("message" :> JObj("tool_calls" :> JArr(<<
                    JObj("id" :> JStr("call_2")
                         @@ "function" :> JObj(
                              "name" :> JStr("search")
                              @@ "arguments" :> JStr("{\"q\": ")))
                  >>)))
                >>))
      [] doc = "resp_usage_mixed" ->
           JObj("usage" :> JObj("prompt_tokens" :> JStr("10")
                                @@ "completion_tokens" :> JNum(6)
                                @@ "input_tokens" :> JNum(8)))
      [] doc = "resp_usage_string" ->
           JObj("usage" :> JStr("none"))
      [] doc = "resp_list" ->
           JArr(<< >>)
      [] OTHER -> JAbsent

\* json.Unmarshal(body, &m) for m map[string]interface{}: m stays nil when the
\* bytes are not a JSON object
UnmarshalMap(body) ==
    IF ValidJSON(body) /\ ~body.q THEN AsMap(DocOf(body.doc)) ELSE NoFields

getString(m, key) ==
    LET x == Field(m, key) IN IF x.t = "str" THEN x.v ELSE ""

\* v.(float64) followed by int(v); 0 when the assertion fails
\* the lookup of a usage count under either provider's key
NumOr0EitherKey(m, key) ==
    LET other == CASE key = "prompt_tokens" -> "input_tokens"
                   [] key = "completion_tokens" -> "output_tokens"
                   [] key = "input_tokens" -> "prompt_tokens"
                   [] OTHER -> "completion_tokens"
        x == Field(m, key)
        y == Field(m, other)
    IN  IF x.t = "num" THEN x.v ELSE IF y.t = "num" THEN y.v ELSE 0

\* usage[key].(float64), 0 when the key is absent or no number
NumOr0(m, key) ==
    LET x == Field(m, key) IN IF x.t = "num" THEN x.v ELSE 0

\* json.RawMessage(args) for a string: valid JSON only if the string is
ArgsOfString(x) ==
    IF x.t = "str" THEN [set |-> TRUE, valid |-> x.v \in {"{}", "[]", "null"}]
    ELSE [set |-> FALSE, valid |-> TRUE]

OpenAIToolCall(tc) ==
    LET tcMap == AsMap(tc)
        fn == Field(tcMap, "function")
    IN  [id |-> getString(tcMap, "id"),
         name |-> IF IsMap(fn) THEN getString(AsMap(fn), "name") ELSE "",
         args |-> IF IsMap(fn) THEN ArgsOfString(Field(AsMap(fn), "arguments"))
                  ELSE [set |-> FALSE, valid |-> TRUE]]

AnthropicToolCall(c) ==
    LET cMap == AsMap(c)
    IN  [id |-> getString(cMap, "id"),
         name |-> getString(cMap, "name"),
         args |-> IF "input" \in DOMAIN cMap
                  THEN [set |-> TRUE, valid |-> TRUE]
                  ELSE [set |-> FALSE, valid |-> TRUE]]

RECURSIVE OpenAIToolCallList(_)
\* for _, tc := range tcs: one ToolCall per element that is a JSON object
OpenAIToolCallList(tcs) ==
    IF tcs = << >> THEN << >>
    ELSE (IF IsMap(Head(tcs)) THEN <<OpenAIToolCall(Head(tcs))>> ELSE << >>)
         \o OpenAIToolCallList(Tail(tcs))

OpenAIToolCalls(respData) ==
    LET choices == Field(respData, "choices")
    IN  IF choices.t = "arr" /\ Len(choices.v) > 0 /\ IsMap(choices.v[1])
        THEN LET msg == Field(AsMap(choices.v[1]), "message")
                 tcs == Field(AsMap(msg), "tool_calls")
             IN  IF IsMap(msg) /\ tcs.t = "arr"
                 THEN OpenAIToolCallList(tcs.v)
                 ELSE << >>
        ELSE << >>

IsToolUse(c) ==
    /\ IsMap(c)
    /\ Field(AsMap(c), "type").t = "str"
    /\ Field(AsMap(c), "type").v = "tool_use"

RECURSIVE AnthropicToolCallList(_)
\* for _, c := range content: one ToolCall per object of type tool_use
AnthropicToolCallList(content) ==
    IF content = << >> THEN << >>
    ELSE (IF IsToolUse(Head(content)) THEN <<AnthropicToolCall(Head(content))>>
          ELSE << >>)
         \o AnthropicToolCallList(Tail(content))

AnthropicToolCalls(respData) ==
    LET content == Field(respData, "content")
    IN  IF content.t = "arr" THEN AnthropicToolCallList(content.v) ELSE << >>

\* the lookup with every provider but anthropic parsed as openai
parseAPIDetailsOpenAIDefault(provider, reqBody, respBody) ==
    LET reqData == UnmarshalMap(reqBody)
        respData == UnmarshalMap(respBody)
        usage == AsMap(Field(respData, "usage"))
    IN  [model |-> getString(reqData, "model"),
         tokensIn |-> IF provider = "anthropic" THEN NumOr0(usage, "input_tokens")
                      ELSE NumOr0(usage, "prompt_tokens"),
         tokensOut |-> IF provider = "anthropic" THEN NumOr0(usage, "output_tokens")
                       ELSE NumOr0(usage, "completion_tokens"),
         toolCalls |-> IF provider = "anthropic" THEN AnthropicToolCalls(respData)
                       ELSE OpenAIToolCalls(respData)]

parseAPIDetails(provider, reqBody, respBody) ==
    LET reqData == UnmarshalMap(reqBody)
        respData == UnmarshalMap(respBody)
        usage == AsMap(Field(respData, "usage"))
    IN  [model |-> getString(reqData, "model"),
         tokensIn |-> CASE provider = "openai" -> NumOr0(usage, "prompt_tokens")
                        [] provider = "anthropic" -> NumOr0(usage, "input_tokens")
                        [] OTHER -> 0,
         tokensOut |-> CASE provider = "openai" -> NumOr0(usage, "completion_tokens")
                         [] provider = "anthropic" -> NumOr0(usage, "output_tokens")
                         [] OTHER -> 0,
         toolCalls |-> CASE provider = "openai" -> OpenAIToolCalls(respData)
                         [] provider = "anthropic" -> AnthropicToolCalls(respData)
                         [] OTHER -> << >>]

(***************************************************************************)
(* Headers: an http.Header is a function from keys to value lists.         *)
(***************************************************************************)
NoHeaders == [k \in {} |-> << >>]

\* strings.ToLower on the header keys of the model
ToLower(key) ==
    CASE key = "Authorization" -> "authorization"
      [] key = "X-Api-Key" -> "x-api-key"
      [] key = "Api-Key" -> "api-key"
      [] key = "Content-Type" -> "content-type"
      [] key = "Content-Encoding" -> "content-encoding"
      [] key = "Content-Length" -> "content-length"
      [] key = "Accept" -> "accept"
      [] key = "Set-Cookie" -> "set-cookie"
      [] key = "X-Regrada-Target" -> "x-regrada-target"
      [] OTHER -> key

\* strings.HasPrefix(key, "X-Regrada-")
HasRegradaPrefix(key) == key \in {"X-Regrada-Target", "X-Regrada-Run"}

RECURSIVE Join(_)
\* strings.Join(values, ", ")
Join(values) ==
    IF values = << >> THEN ""
    ELSE IF Len(values) = 1 THEN values[1]
    ELSE values[1] \o ", " \o Join(Tail(values))

\* h.Get(key): the first value, "" when there is none
HeaderGet(h, key) ==
    IF key \in DOMAIN h /\ Len(h[key]) > 0 THEN h[key][1] ELSE ""

HeaderDel(h, key) == [k \in DOMAIN h \ {key} |-> h[k]]

HeaderSet(h, key, value) ==
    [k \in DOMAIN h \cup {key} |-> IF k = key THEN <<value>> ELSE h[k]]

\* a loop of dst.Add(key, value) over every key of src, into an empty header
HeaderCopy(src) == [k \in {x \in DOMAIN src : Len(src[x]) > 0} |-> src[k]]

\* the same loop, skipping the keys with the proxy's own prefix
HeaderCopyForward(src) ==
    [k \in {x \in DOMAIN src : ~HasRegradaPrefix(x) /\ Len(src[x]) > 0} |-> src[k]]

\* the comparison of line 600 without the strings.ToLower of line 599
SensitiveKeyExact(key) ==
    key = "authorization" \/ key = "x-api-key" \/ key = "api-key"

\* lines 599-600
SensitiveKey(key) ==
    LET lowerKey == ToLower(key)
    IN  lowerKey = "authorization" \/ lowerKey = "x-api-key" \/ lowerKey = "api-key"

flattenHeaders(h) ==
    [key \in DOMAIN h |-> IF SensitiveKey(key) THEN Redacted ELSE Join(h[key])]

(***************************************************************************)
(* What the proxy is sent.  A request is what a caller sends; an upstream  *)
(* result is what p.httpClient.Do returns for the forwarded request.       *)
(***************************************************************************)
Request(headers, body) ==
    [path |-> "/v1/chat/completions", headers |-> headers, body |-> body]

NoRequest == Request(NoHeaders, EmptyBody)

Upstream(status, headers, body) ==
    [err |-> FALSE, status |-> status, headers |-> headers, body |-> body]

\* Do returned an error: connection refused, timeout of the client, ...
TransportError == [err |-> TRUE, status |-> 0, headers |-> NoHeaders, body |-> EmptyBody]

ReqHeaderSets ==
    { "Authorization" :> <<"Bearer secret123">>
        @@ "Content-Type" :> <<"application/json">>,
      "X-Api-Key" :> <<"sk-ant-1">>
        @@ "X-Regrada-Target" :> <<"anthropic">>
        @@ "Accept" :> <<"application/json", "text/plain">>,
      "Api-Key" :> <<"azure-key">>
        @@ "X-Regrada-Target" :> <<"azure">>,
      "Authorization" :> <<"Bearer secret123">>
        @@ "X-Regrada-Target" :> <<"custom">>
        @@ "X-Regrada-Run" :> <<"42">> }

ReqBodies == { JsonBody("req_gpt", 17), JsonBody("req_claude", 20), TextBody(5), EmptyBody }

AllRequests == { Request(h, b) : h \in ReqHeaderSets, b \in ReqBodies }

JsonType == "Content-Type" :> <<"application/json">>

AllUpstreams ==
    { TransportError,
      Upstream(200, JsonType @@ "Content-Length" :> <<"40">>,
               JsonBody("resp_openai", 40)),
      Upstream(200, JsonType, JsonBody("resp_openai_tool", 90)),
      Upstream(200, JsonType @@ "Content-Encoding" :> <<"gzip">>
                    @@ "Content-Length" :> <<"31">>,
               GzipOf(JsonBody("resp_openai", 40), 31)),
      Upstream(200, JsonType @@ "Content-Encoding" :> <<"gzip">>,
               GzipOf(JsonBody("resp_anthropic", 80), 52)),
      Upstream(200, JsonType @@ "Content-Encoding" :> <<"gzip">>,
               [TextBody(12) EXCEPT !.enc = "bad"]),
      Upstream(200, JsonType @@ "Content-Encoding" :> <<"br">>
                    @@ "Content-Length" :> <<"25">>,
               TextBody(25)),
      Upstream(200, JsonType @@ "X-Api-Key" :> <<"sk-echoed">>
                    @@ "Set-Cookie" :> <<"a=1", "b=2">>,
               JsonBody("resp_anthropic", 80)),
      Upstream(529, JsonType, JsonBody("resp_error", 22)),
      Upstream(200, JsonType, JsonBody("resp_openai_badargs", 95)),
      Upstream(200, JsonType, JsonBody("resp_usage_mixed", 70)),
      Upstream(200, JsonType, JsonBody("resp_usage_string", 17)),
      Upstream(200, "Content-Type" :> <<"text/plain">>, TextBody(9)),
      Upstream(204, NoHeaders, EmptyBody) }

\* The requests and upstream results of the runs that interleave handlers.
CoreRequests ==
    { Request("Authorization" :> <<"Bearer secret123">>, JsonBody("req_gpt", 17)),
      Request("Api-Key" :> <<"azure-key">> @@ "X-Regrada-Target" :> <<"azure">>,
              JsonBody("req_gpt", 17)) }

CoreUpstreams ==
    { TransportError,
      Upstream(200, JsonType, JsonBody("resp_openai_tool", 90)) }

(***************************************************************************)
(* LLMProxy.handleRequest and createTrace.                                 *)
(***************************************************************************)
NoTrace ==
    [id |-> 0 - 1, conn |-> 0, provider |-> "", endpoint |-> "", model |-> "",
     reqHeaders |-> [k \in {} |-> ""], reqBody |-> EmptyBody, status |-> 0,
     respHeaders |-> [k \in {} |-> ""], respBody |-> EmptyBody, latency |-> 0,
     toolCalls |-> << >>, tokensIn |-> 0, tokensOut |-> 0]

\* Go's integer division, which truncates toward zero
Quot(a, b) == IF a >= 0 THEN a \div b ELSE 0 - ((0 - a) \div b)

\* generateTraceID: the wall clock's reading, printed
generateTraceID(now) == now

createTrace(conn, provider, req, reqBody, resp, respBody, latency, now) ==
    LET d == parseAPIDetails(provider, reqBody, respBody)
    IN  [id |-> generateTraceID(now),
         conn |-> conn,
         provider |-> provider,
         endpoint |-> req.path,
         model |-> d.model,
         reqHeaders |-> flattenHeaders(req.headers),
         reqBody |-> sanitizeBody(reqBody),
         status |-> resp.status,
         respHeaders |-> flattenHeaders(resp.headers),
         respBody |-> sanitizeBody(respBody),
         latency |-> Quot(latency, Millisecond),
         toolCalls |-> d.toolCalls,
         tokensIn |-> d.tokensIn,
         tokensOut |-> d.tokensOut]

NoResponse == [status |-> 0, headers |-> NoHeaders, body |-> EmptyBody]

\* http.Error(w, msg, code)
HttpError(code) ==
    [status |-> code,
     headers |-> "Content-Type" :> <<"text/plain; charset=utf-8">>
                 @@ "X-Content-Type-Options" :> <<"nosniff">>,
     body |-> TextBody(17)]

Idle ==
    [pc |-> "idle", req |-> NoRequest, provider |-> "", startTime |-> 0,
     fwdHeaders |-> NoHeaders, resp |-> TransportError, respBody |-> EmptyBody,
     trace |-> NoTrace]

\* a handler that has returned: its locals are gone; the request it served and
\* the upstream result it got are kept for reference
Returned(h) == [Idle EXCEPT !.pc = "done", !.req = h.req, !.provider = h.provider,
                            !.resp = h.resp]

\* targetProvider: the X-Regrada-Target header, "openai" when it is empty
targetProvider(req) ==
    IF HeaderGet(req.headers, "X-Regrada-Target") = ""
    THEN DefaultProvider
    ELSE HeaderGet(req.headers, "X-Regrada-Target")

\* the handler taking the lock, when it is free, before it forwards the request
handleRequestBeginLocked(r, R) ==
    /\ exitStatus = Running
    /\ accepting
    /\ hs[r].pc = "idle"
    /\ \A q \in Reqs : q < r => hs[q].pc # "idle"
    /\ \E req \in R :
          IF targetProvider(req) \notin providers
          THEN /\ hs' = [hs EXCEPT ![r] = [@ EXCEPT !.pc = "done", !.req = req]]
               /\ out' = [out EXCEPT ![r] = HttpError(StatusBadGateway)]
               /\ mu' = mu
          ELSE /\ mu = 0
               /\ mu' = r
               /\ hs' = [hs EXCEPT ![r] = [@ EXCEPT
                            !.pc = "upstream", !.req = req, !.startTime = clock,
                            !.provider = targetProvider(req),
                            !.fwdHeaders = HeaderCopyForward(req.headers)]]
               /\ out' = out
    /\ UNCHANGED <<clock, accepting, providers, traces, runVars, evalVars>>

\* lines 335-377: a connection is accepted and its request is read; an unknown
\* provider is answered 502, otherwise the request is forwarded
handleRequestBegin(r, R) ==
    /\ exitStatus = Running
    /\ accepting
    /\ hs[r].pc = "idle"
    /\ \A q \in Reqs : q < r => hs[q].pc # "idle"   \* numbered as accepted
    /\ \E req \in R :
          IF targetProvider(req) \notin providers
          THEN /\ hs' = [hs EXCEPT ![r] = [@ EXCEPT !.pc = "done", !.req = req]]
               /\ out' = [out EXCEPT ![r] = HttpError(StatusBadGateway)]
          ELSE /\ hs' = [hs EXCEPT ![r] = [@ EXCEPT
                            !.pc = "upstream", !.req = req, !.startTime = clock,
                            !.provider = targetProvider(req),
                            !.fwdHeaders = HeaderCopyForward(req.headers)]]
               /\ out' = out
    /\ UNCHANGED <<clock, accepting, providers, traces, mu, runVars, evalVars>>

\* the body passed on as read, whatever its encoding
readResponseBodyAsRead(resp) == resp.body

\* lines 386-396: the response body as the handler holds it
readResponseBody(resp) ==
    IF HeaderGet(resp.headers, "Content-Encoding") = "gzip"
    THEN Gunzip(resp.body)[2]
    ELSE resp.body

\* the handler without the return after http.Error of lines 380-383
handleRequestUpstreamNoReturn(r, U) ==
    /\ exitStatus = Running
    /\ hs[r].pc = "upstream"
    /\ \E resp \in U :
          LET responseBody == readResponseBody(resp)
              latency == clock - hs[r].startTime
          IN  /\ hs' = [hs EXCEPT ![r] = [@ EXCEPT
                           !.pc = "lock", !.resp = resp,
                           !.respBody = responseBody,
                           !.trace = createTrace(r, hs[r].provider, hs[r].req,
                                         hs[r].req.body, resp, responseBody,
                                         latency, clock)]]
              /\ out' = IF resp.err
                        THEN [out EXCEPT ![r] = HttpError(StatusBadGateway)]
                        ELSE out
    /\ UNCHANGED <<clock, accepting, providers, traces, mu, runVars, evalVars>>

\* lines 378-401: Do returns.  An error is answered 502; otherwise the body is
\* read (decompressed when labelled gzip) and the trace is created
handleRequestUpstream(r, U) ==
    /\ exitStatus = Running
    /\ hs[r].pc = "upstream"
    /\ \E resp \in U :
          IF resp.err
          THEN /\ hs' = [hs EXCEPT ![r] = Returned(hs[r])]
               /\ out' = [out EXCEPT ![r] = HttpError(StatusBadGateway)]
          ELSE LET responseBody == readResponseBody(resp)
                   latency == clock - hs[r].startTime
               IN  /\ hs' = [hs EXCEPT ![r] = [@ EXCEPT
                                !.pc = "lock", !.resp = resp,
                                !.respBody = responseBody,
                                !.trace = createTrace(r, hs[r].provider, hs[r].req,
                                              hs[r].req.body, resp, responseBody,
                                              latency, clock)]]
                   /\ out' = out
    /\ UNCHANGED <<clock, accepting, providers, traces, mu, runVars, evalVars>>

\* line 402: p.mu.Lock()
handleRequestLock(r) ==
    /\ exitStatus = Running
    /\ hs[r].pc = "lock"
    /\ mu = 0
    /\ mu' = r
    /\ hs' = [hs EXCEPT ![r] = [@ EXCEPT !.pc = "locked"]]
    /\ UNCHANGED <<clock, accepting, providers, traces, out, runVars, evalVars>>

\* the append written as an assignment of a one-element list
handleRequestAppendOverwrites(r) ==
    /\ exitStatus = Running
    /\ hs[r].pc = "locked"
    /\ mu = r
    /\ traces' = <<hs[r].trace>>
    /\ mu' = 0
    /\ hs' = [hs EXCEPT ![r] = [@ EXCEPT !.pc = "write"]]
    /\ UNCHANGED <<clock, accepting, providers, out, runVars, evalVars>>

\* the list kept newest first
handleRequestAppendInFront(r) ==
    /\ exitStatus = Running
    /\ hs[r].pc = "locked"
    /\ mu = r
    /\ traces' = <<hs[r].trace>> \o traces
    /\ mu' = 0
    /\ hs' = [hs EXCEPT ![r] = [@ EXCEPT !.pc = "write"]]
    /\ UNCHANGED <<clock, accepting, providers, out, runVars, evalVars>>

\* lines 403-404: the append, and p.mu.Unlock()
handleRequestAppend(r) ==
    /\ exitStatus = Running
    /\ hs[r].pc = "locked"
    /\ mu = r
    /\ traces' = Append(traces, hs[r].trace)
    /\ mu' = 0
    /\ hs' = [hs EXCEPT ![r] = [@ EXCEPT !.pc = "write"]]
    /\ UNCHANGED <<clock, accepting, providers, out, runVars, evalVars>>

\* lines 406-415: the response as written to the caller
writeResponse(resp, responseBody) ==
    [status |-> resp.status,
     headers |-> HeaderSet(HeaderDel(HeaderCopy(resp.headers), "Content-Encoding"),
                           "Content-Length", ToString(BodyLen(responseBody))),
     body |-> responseBody]

\* the response written before the record is appended
handleRequestWriteFirst(r) ==
    /\ exitStatus = Running
    /\ hs[r].pc \in {"lock", "write"}
    /\ out' = [out EXCEPT ![r] = writeResponse(hs[r].resp, hs[r].respBody)]
    /\ hs' = [hs EXCEPT ![r] = IF hs[r].pc = "write" THEN Returned(hs[r]) ELSE hs[r]]
    /\ UNCHANGED <<clock, accepting, providers, traces, mu, runVars, evalVars>>

handleRequestWrite(r) ==
    /\ exitStatus = Running
    /\ hs[r].pc = "write"
    /\ out' = [out EXCEPT ![r] = writeResponse(hs[r].resp, hs[r].respBody)]
    /\ hs' = [hs EXCEPT ![r] = Returned(hs[r])]
    /\ UNCHANGED <<clock, accepting, providers, traces, mu, runVars, evalVars>>

\* some goroutine has yet to read the clock (which reads 0 when runTrace starts)
ClockObserved ==
    \/ runPc \in {"capturing", "shutdown", "stopped", "noproxy"}
    \/ \E r \in Reqs : hs[r].pc = "upstream"

\* time passes
Tick ==
    /\ exitStatus = Running
    /\ ClockObserved
    /\ clock < MaxClock
    /\ clock' = clock + 1
    /\ UNCHANGED <<accepting, providers, hs, traces, mu, out, runVars, evalVars>>

(***************************************************************************)
(* Files.  A file holds a JSON document of one of the two shapes the       *)
(* commands write, or bytes that are no JSON, or does not exist.           *)
(***************************************************************************)
ZeroSummary ==
    [totalCalls |-> 0, totalTokensIn |-> 0, totalTokensOut |-> 0,
     totalLatency |-> 0, byProvider |-> [k \in {} |-> 0],
     byModel |-> [k \in {} |-> 0], toolsCalled |-> << >>]

\* the zero TraceSession; endTime 0 - 1 stands for the zero time.Time
ZeroSession ==
    [id |-> 0 - 1, startTime |-> 0 - 1, endTime |-> 0 - 1, traces |-> << >>,
     summary |-> ZeroSummary]

ZeroEvalResult ==
    [totalTests |-> 0, passed |-> 0, failed |-> 0, regressions |-> 0,
     testResults |-> << >>, compared |-> FALSE,
     comparison |-> [newFailures |-> {}, newPasses |-> {}, removedTests |-> {},
                     addedTests |-> {}]]

MissingFile == [kind |-> "missing", session |-> ZeroSession, result |-> ZeroEvalResult]
MalformedFile == [kind |-> "malformed", session |-> ZeroSession, result |-> ZeroEvalResult]
SessionFile(s) == [kind |-> "trace", session |-> s, result |-> ZeroEvalResult]
ResultFile(e) == [kind |-> "eval", session |-> ZeroSession, result |-> e]

\* os.Stat(path) succeeds
Exists(f) == f.kind # "missing"

\* os.ReadFile + json.Unmarshal into a TraceSession: <<ok, session>>.  A JSON
\* document of the other shape has none of the struct's keys and decodes to
\* the zero session without error.
ReadSession(f) ==
    CASE f.kind = "trace" -> <<TRUE, f.session>>
      [] f.kind = "eval" -> <<TRUE, ZeroSession>>
      [] OTHER -> <<FALSE, ZeroSession>>

(***************************************************************************)
(* calculateSummary.                                                       *)
(***************************************************************************)
RECURSIVE SumSeq(_)
SumSeq(s) == IF s = << >> THEN 0 ELSE Head(s) + SumSeq(Tail(s))

Range(s) == { s[i] : i \in DOMAIN s }

\* toolSet after the loop over the traces
ToolSet(ts) ==
    UNION { { ts[i].toolCalls[j].name : j \in DOMAIN ts[i].toolCalls } : i \in DOMAIN ts }

\* the orders in which a range over a map with key set S can visit it
Orderings(S) ==
    { o \in [1..Cardinality(S) -> S] : \A i, j \in DOMAIN o : i # j => o[i] # o[j] }

CountWhere(ts, field, value) ==
    Cardinality({ i \in DOMAIN ts : ts[i][field] = value })

\* the summary that counts a trace without a model name under the key ""
calculateSummaryAnyModel(ts, toolOrder) ==
    [totalCalls |-> Len(ts),
     totalTokensIn |-> SumSeq([i \in DOMAIN ts |-> ts[i].tokensIn]),
     totalTokensOut |-> SumSeq([i \in DOMAIN ts |-> ts[i].tokensOut]),
     totalLatency |-> SumSeq([i \in DOMAIN ts |-> ts[i].latency]),
     byProvider |-> [p \in { ts[i].provider : i \in DOMAIN ts }
                       |-> CountWhere(ts, "provider", p)],
     byModel |-> [m \in { ts[i].model : i \in DOMAIN ts }
                    |-> CountWhere(ts, "model", m)],
     toolsCalled |-> toolOrder]

\* toolOrder: the order in which the range over toolSet visits it
calculateSummary(ts, toolOrder) ==
    [totalCalls |-> Len(ts),
     totalTokensIn |-> SumSeq([i \in DOMAIN ts |-> ts[i].tokensIn]),
     totalTokensOut |-> SumSeq([i \in DOMAIN ts |-> ts[i].tokensOut]),
     totalLatency |-> SumSeq([i \in DOMAIN ts |-> ts[i].latency]),
     byProvider |-> [p \in { ts[i].provider : i \in DOMAIN ts }
                       |-> CountWhere(ts, "provider", p)],
     byModel |-> [m \in { ts[i].model : i \in DOMAIN ts } \ {""}
                    |-> CountWhere(ts, "model", m)],
     toolsCalled |-> toolOrder]

(***************************************************************************)
(* saveTraceSession and compareWithBaseline.                               *)
(***************************************************************************)
\* json.MarshalIndent(session) succeeds: a json.RawMessage that is set must
\* hold valid JSON
Marshals(s) ==
    \A i \in DOMAIN s.traces : \A j \in DOMAIN s.traces[i].toolCalls :
        LET a == s.traces[i].toolCalls[j].args IN a.set => a.valid

\* saveTraceSession(session, path): <<err == nil, the files afterwards>>.
\* ioOk: MkdirAll and WriteFile succeed
saveTraceSession(files, s, path, ioOk) ==
    IF Marshals(s) /\ ioOk
    THEN <<TRUE, [files EXCEPT ![path] = SessionFile(s)]>>
    ELSE <<FALSE, files>>

NoComparison ==
    [ran |-> FALSE, callCount |-> "", newTools |-> {}, removedTools |-> {},
     modelChanged |-> {}, newModels |-> {}, tokenDirection |-> "", tokenDiff |-> 0]

\* the comparison listing every tool of the current session as new
compareWithBaselineAllNew(s, f) ==
    IF ~ReadSession(f)[1] THEN NoComparison
    ELSE LET cur == s.summary
             base == ReadSession(f)[2].summary
             tokenDiff == (cur.totalTokensIn + cur.totalTokensOut)
                          - (base.totalTokensIn + base.totalTokensOut)
         IN  [ran |-> TRUE,
              callCount |-> IF cur.totalCalls # base.totalCalls
                            THEN "changed" ELSE "unchanged",
              newTools |-> Range(cur.toolsCalled),
              removedTools |-> { t \in Range(base.toolsCalled) :
                                   t \notin Range(cur.toolsCalled) },
              modelChanged |-> { m \in DOMAIN cur.byModel :
                                   /\ m \in DOMAIN base.byModel
                                   /\ cur.byModel[m] # base.byModel[m] },
              newModels |-> { m \in DOMAIN cur.byModel : m \notin DOMAIN base.byModel },
              tokenDirection |-> IF tokenDiff = 0 THEN ""
                                 ELSE IF tokenDiff < 0 THEN "decreased"
                                 ELSE "increased",
              tokenDiff |-> IF tokenDiff < 0 THEN 0 - tokenDiff ELSE tokenDiff]

\* the comparison printing the token difference with its sign
compareWithBaselineSigned(s, f) ==
    IF ~ReadSession(f)[1] THEN NoComparison
    ELSE LET cur == s.summary
             base == ReadSession(f)[2].summary
             currentTools == Range(cur.toolsCalled)
             baselineTools == Range(base.toolsCalled)
             tokenDiff == (cur.totalTokensIn + cur.totalTokensOut)
                          - (base.totalTokensIn + base.totalTokensOut)
         IN  [ran |-> TRUE,
              callCount |-> IF cur.totalCalls # base.totalCalls
                            THEN "changed" ELSE "unchanged",
              newTools |-> { t \in currentTools : t \notin baselineTools },
              removedTools |-> { t \in baselineTools : t \notin currentTools },
              modelChanged |-> { m \in DOMAIN cur.byModel :
                                   /\ m \in DOMAIN base.byModel
                                   /\ cur.byModel[m] # base.byModel[m] },
              newModels |-> { m \in DOMAIN cur.byModel : m \notin DOMAIN base.byModel },
              tokenDirection |-> IF tokenDiff = 0 THEN ""
                                 ELSE IF tokenDiff < 0 THEN "decreased"
                                 ELSE "increased",
              tokenDiff |-> tokenDiff]

\* what compareWithBaseline prints, or NoComparison when it returns early
compareWithBaseline(s, f) ==
    IF ~ReadSession(f)[1] THEN NoComparison
    ELSE LET cur == s.summary
             base == ReadSession(f)[2].summary
             currentTools == Range(cur.toolsCalled)
             baselineTools == Range(base.toolsCalled)
             tokenDiff == (cur.totalTokensIn + cur.totalTokensOut)
                          - (base.totalTokensIn + base.totalTokensOut)
         IN  [ran |-> TRUE,
              callCount |-> IF cur.totalCalls # base.totalCalls
                            THEN "changed" ELSE "unchanged",
              newTools |-> { t \in currentTools : t \notin baselineTools },
              removedTools |-> { t \in baselineTools : t \notin currentTools },
              modelChanged |-> { m \in DOMAIN cur.byModel :
                                   /\ m \in DOMAIN base.byModel
                                   /\ cur.byModel[m] # base.byModel[m] },
              newModels |-> { m \in DOMAIN cur.byModel : m \notin DOMAIN base.byModel },
              tokenDirection |-> IF tokenDiff = 0 THEN ""
                                 ELSE IF tokenDiff < 0 THEN "decreased"
                                 ELSE "increased",
              tokenDiff |-> IF tokenDiff < 0 THEN 0 - tokenDiff ELSE tokenDiff]

(***************************************************************************)
(* runTrace.  A flag is drawn when runTrace first reads it; nothing before *)
(* that point depends on it.                                               *)
(***************************************************************************)
BaselinePath == "baseline"     \* .regrada/baseline.json
TracesPath == "traces"         \* .regrada/traces/<session id>.json
ResultsPath == "results"       \* .regrada/results.json

\* what runTrace has printed about the session: nothing yet
NoReport == [summarised |-> FALSE, saveOk |-> FALSE, baselineOk |-> FALSE,
             cmp |-> NoComparison]

\* getDefaultConfig: the provider section of the configuration
DefaultConfig == [type |-> "openai", baseURL |-> ""]

\* runTrace's arguments and the configuration it loaded
NoFlags == [noProxy |-> FALSE, saveBaseline |-> FALSE, outputFile |-> "",
            config |-> DefaultConfig]
NoChild == [state |-> "none", exitCode |-> 0]

\* the handlers that have not returned
ActiveHandlers == { r \in Reqs : hs[r].pc \notin {"idle", "done"} }

\* newLLMProxy, lines 311-321: the provider table
Providers(baseURL) ==
    {"openai", "anthropic"} \cup (IF baseURL # "" THEN {"custom"} ELSE {})

\* lines 190-227: newLLMProxy binds and serves, the session starts and the
\* child is launched.  baseURL: config.Provider.BaseURL
runTraceStartProxy(baseURL) ==
    /\ runPc = "start"
    /\ runPc' = "capturing"
    /\ flags' = [flags EXCEPT !.noProxy = FALSE]
    /\ providers' = Providers(baseURL)
    /\ accepting' = TRUE
    /\ session' = [session EXCEPT !.id = generateTraceID(clock), !.startTime = clock]
    /\ child' = [state |-> "running", exitCode |-> 0]
    /\ UNCHANGED <<clock, hs, traces, mu, out, ctxCancelled, sigPc, fs, report, exitStatus, evalVars>>

\* lines 191-195: net.Listen fails, os.Exit(1)
runTraceBindFails ==
    /\ runPc = "start"
    /\ runPc' = "exited"
    /\ exitStatus' = 1
    /\ flags' = [flags EXCEPT !.noProxy = FALSE]
    /\ UNCHANGED <<clock, accepting, providers, hs, traces, mu, out, child, ctxCancelled, sigPc, session, fs, report, evalVars>>

\* lines 174-183: --no-proxy, the child is launched without a proxy
runTraceStartNoProxy ==
    /\ runPc = "start"
    /\ runPc' = "noproxy"
    /\ flags' = [flags EXCEPT !.noProxy = TRUE]
    /\ session' = [session EXCEPT !.id = generateTraceID(clock), !.startTime = clock,
                                  !.traces = << >>]
    /\ child' = [state |-> "running", exitCode |-> 0]
    /\ UNCHANGED <<clock, accepting, providers, hs, traces, mu, out, ctxCancelled, sigPc, fs, report, exitStatus, evalVars>>

\* executeCommandWithCtx, lines 581-588: the child exits by itself
childExits(code) ==
    /\ exitStatus = Running
    /\ child.state = "running"
    /\ child' = [state |-> "exited", exitCode |-> code]
    /\ UNCHANGED <<clock, accepting, providers, hs, traces, mu, out, runPc, flags, ctxCancelled, sigPc, session, fs, report, exitStatus, evalVars>>

\* exec.CommandContext, line 572: the cancelled context kills the child
childKilled ==
    /\ exitStatus = Running
    /\ child.state = "running"
    /\ ctxCancelled
    /\ child' = [state |-> "exited", exitCode |-> 0 - 1]
    /\ UNCHANGED <<clock, accepting, providers, hs, traces, mu, out, runPc, flags, ctxCancelled, sigPc, session, fs, report, exitStatus, evalVars>>

\* lines 213-221: the goroutine receives SIGINT or SIGTERM, cancels the context
\* and calls proxy.shutdown, whose server.Shutdown closes the listener before
\* it waits (only the proxy branch installs the handler)
interrupt ==
    /\ exitStatus = Running
    /\ runPc \in {"capturing", "shutdown", "stopped", "drained"}
    /\ ~flags.noProxy
    /\ sigPc = "waiting"
    /\ sigPc' = "shutdown"
    /\ ctxCancelled' = TRUE
    /\ accepting' = FALSE
    /\ UNCHANGED <<clock, providers, hs, traces, mu, out, runPc, flags, child, session, fs, report, exitStatus, evalVars>>

\* lines 537-541 in the goroutine: server.Shutdown returns, because no handler
\* is running or because its 5 s context expired, and the goroutine ends
interruptReturn ==
    /\ exitStatus = Running
    /\ sigPc = "shutdown"
    /\ sigPc' = "returned"
    /\ UNCHANGED <<clock, accepting, providers, hs, traces, mu, out, runPc, flags, child, ctxCancelled, session, fs, report, exitStatus, evalVars>>

\* lines 183-188: executeCommand returned; a non-zero exit code ends the run
runTraceNoProxyReturn ==
    /\ runPc = "noproxy"
    /\ child.state = "exited"
    /\ session' = [session EXCEPT !.endTime = clock]
    /\ IF child.exitCode # 0
       THEN runPc' = "exited" /\ exitStatus' = child.exitCode
       ELSE runPc' = "drained" /\ exitStatus' = exitStatus
    /\ UNCHANGED <<clock, accepting, providers, hs, traces, mu, out, flags, child, ctxCancelled, sigPc, fs, report, evalVars>>

\* lines 227-233 and 537-541: executeCommandWithCtx returned; shutdown closes
\* the listener
runTraceShutdown ==
    /\ runPc = "capturing"
    /\ child.state = "exited"
    /\ runPc' = "shutdown"
    /\ accepting' = FALSE
    /\ UNCHANGED <<clock, providers, hs, traces, mu, out, flags, child, ctxCancelled, sigPc, session, fs, report, exitStatus, evalVars>>

\* server.Shutdown returns because no handler is running
shutdownIdle ==
    /\ runPc = "shutdown"
    /\ ActiveHandlers = {}
    /\ runPc' = "stopped"
    /\ UNCHANGED <<clock, accepting, providers, hs, traces, mu, out, flags, child, ctxCancelled, sigPc, session, fs, report, exitStatus, evalVars>>

\* server.Shutdown under a context without deadline: it returns only when no
\* handler is running
shutdownWaits ==
    /\ runPc = "shutdown"
    /\ ActiveHandlers = {}
    /\ runPc' = "stopped"
    /\ UNCHANGED <<clock, accepting, providers, hs, traces, mu, out, flags, child, ctxCancelled, sigPc, session, fs, report, exitStatus, evalVars>>

\* server.Shutdown returns because its 5 s context expired
shutdownTimeout ==
    /\ runPc = "shutdown"
    /\ ActiveHandlers # {}
    /\ runPc' = "stopped"
    /\ UNCHANGED <<clock, accepting, providers, hs, traces, mu, out, flags, child, ctxCancelled, sigPc, session, fs, report, exitStatus, evalVars>>

\* the copy that stops one record short of the end of the list
getTracesButLast == SubSeq(traces, 1, Len(traces) - 1)

\* lines 531-535: the copy getTraces returns
getTraces == traces

\* lines 234-235: the end time, and the drain under the lock
runTraceDrain ==
    /\ runPc = "stopped"
    /\ mu = 0
    /\ session' = [session EXCEPT !.endTime = clock, !.traces = getTraces]
    /\ runPc' = "drained"
    /\ UNCHANGED <<clock, accepting, providers, hs, traces, mu, out, flags, child, ctxCancelled, sigPc, fs, report, exitStatus, evalVars>>

\* lines 242-274, the rest of runTrace, which shares nothing with the
\* handlers: the summary; the session written to the output file (an error is
\* printed and the run goes on); with --save-baseline the session written to
\* the baseline path; otherwise the comparison with an existing baseline;
\* the return.  ioOk1, ioOk2: the two writes succeed
runTraceFinish(OutputFiles, SaveBaseline, Io) ==
    /\ runPc = "drained"
    /\ \E toolOrder \in Orderings(ToolSet(session.traces)),
          outputFile \in OutputFiles, saveBaseline \in SaveBaseline,
          ioOk1 \in Io, ioOk2 \in Io :
          LET s == [session EXCEPT
                       !.summary = calculateSummary(session.traces, toolOrder)]
              w1 == saveTraceSession(fs, s,
                        IF outputFile = "" THEN TracesPath ELSE outputFile, ioOk1)
              w2 == IF saveBaseline
                    THEN saveTraceSession(w1[2], s, BaselinePath, ioOk2)
                    ELSE <<TRUE, w1[2]>>
          IN  /\ session' = s
              /\ flags' = [flags EXCEPT !.outputFile = outputFile,
                                        !.saveBaseline = saveBaseline]
              /\ fs' = w2[2]
              /\ report' = [summarised |-> TRUE, saveOk |-> w1[1],
                            baselineOk |-> w2[1],
                            cmp |-> IF Exists(w2[2][BaselinePath]) /\ ~saveBaseline
                                    THEN compareWithBaseline(s, w2[2][BaselinePath])
                                    ELSE NoComparison]
    /\ runPc' = "done"
    /\ exitStatus' = 0
    /\ UNCHANGED <<clock, accepting, providers, hs, traces, mu, out, child, ctxCancelled, sigPc, evalVars>>

(***************************************************************************)
(* `regrada run`: runCheck, runTest, compareWithBaselineResults, runEvals. *)
(* The lists a comparison builds by ranging over a map hold each name once *)
(* in an unspecified order; they are kept as sets.                         *)
(***************************************************************************)
\* test names, in the order the input lists are enumerated in
Names == <<"A", "B", "C">>
NameIndex(n) == CHOOSE i \in DOMAIN Names : Names[i] = n

\* lines 1066-1072: the check type is what precedes the first ":" when the
\* colon is not the first character, else the whole check
CheckType(check) ==
    CASE check = "tool_called:refund.create" -> "tool_called"
      [] check = "sentiment: positive" -> "sentiment"
      [] OTHER -> check

\* lines 1074-1143: only INTENTIONAL_FAIL fails
runCheck(check) ==
    [check |-> check, passed |-> CheckType(check) # "INTENTIONAL_FAIL"]

\* the test judged by its last check alone
runTestLastCheck(test) ==
    LET checkResults == [i \in DOMAIN test.checks |-> runCheck(test.checks[i])]
    IN  [name |-> test.name,
         status |-> IF checkResults # << >> /\ ~checkResults[Len(checkResults)].passed
                    THEN "failed" ELSE "passed",
         checkResults |-> checkResults]

\* lines 1018-1062
runTest(test) ==
    LET checkResults == [i \in DOMAIN test.checks |-> runCheck(test.checks[i])]
    IN  [name |-> test.name,
         status |-> IF \E i \in DOMAIN checkResults : ~checkResults[i].passed
                    THEN "failed" ELSE "passed",
         checkResults |-> checkResults]

\* os.ReadFile + json.Unmarshal into an EvalResult: <<ok, result>>
ReadResult(f) ==
    CASE f.kind = "eval" -> <<TRUE, f.result>>
      [] f.kind = "trace" -> <<TRUE, ZeroEvalResult>>
      [] OTHER -> <<FALSE, ZeroEvalResult>>

\* lines 1162-1170: the map built from a result list, a repeated name keeping
\* its last entry
ResultMap(results) ==
    [n \in { results[i].name : i \in DOMAIN results } |->
        LET last == CHOOSE i \in DOMAIN results :
                        /\ results[i].name = n
                        /\ \A j \in DOMAIN results : results[j].name = n => j <= i
        IN  results[last].status]

NoEvalComparison ==
    [newFailures |-> {}, newPasses |-> {}, removedTests |-> {}, addedTests |-> {}]

\* the comparison with every baseline status other than "failed" taken as a pass
compareWithBaselineResultsLax(current, f) ==
    IF ~ReadResult(f)[1] THEN NoEvalComparison
    ELSE LET baselineResults == ResultMap(ReadResult(f)[2].testResults)
             currentResults == ResultMap(current.testResults)
         IN  [newFailures |-> { n \in DOMAIN currentResults :
                                  /\ n \in DOMAIN baselineResults
                                  /\ baselineResults[n] # "failed"
                                  /\ currentResults[n] = "failed" },
              newPasses |-> { n \in DOMAIN currentResults :
                                /\ n \in DOMAIN baselineResults
                                /\ baselineResults[n] = "failed"
                                /\ currentResults[n] = "passed" },
              addedTests |-> { n \in DOMAIN currentResults :
                                 n \notin DOMAIN baselineResults },
              removedTests |-> { n \in DOMAIN baselineResults :
                                   n \notin DOMAIN currentResults }]

\* lines 1146-1193
compareWithBaselineResults(current, f) ==
    IF ~ReadResult(f)[1] THEN NoEvalComparison
    ELSE LET baselineResults == ResultMap(ReadResult(f)[2].testResults)
             currentResults == ResultMap(current.testResults)
         IN  [newFailures |-> { n \in DOMAIN currentResults :
                                  /\ n \in DOMAIN baselineResults
                                  /\ baselineResults[n] = "passed"
                                  /\ currentResults[n] = "failed" },
              newPasses |-> { n \in DOMAIN currentResults :
                                /\ n \in DOMAIN baselineResults
                                /\ baselineResults[n] = "failed"
                                /\ currentResults[n] = "passed" },
              addedTests |-> { n \in DOMAIN currentResults :
                                 n \notin DOMAIN baselineResults },
              removedTests |-> { n \in DOMAIN baselineResults :
                                   n \notin DOMAIN currentResults }]

\* lines 948-964: the tests run in suite order and are counted
RunTests(suite) ==
    LET testResults == [i \in DOMAIN suite |-> runTest(suite[i])]
        passed == Cardinality({ i \in DOMAIN suite : testResults[i].status = "passed" })
    IN  [ZeroEvalResult EXCEPT !.totalTests = Len(suite),
                               !.passed = passed,
                               !.failed = Len(suite) - passed,
                               !.testResults = testResults]

\* the comparison stored without the regression count
WithBaselineUncounted(result, f) ==
    IF Exists(f)
    THEN [result EXCEPT !.compared = TRUE,
                        !.comparison = compareWithBaselineResults(result, f)]
    ELSE result

\* the regression count that includes the tests removed since the baseline
WithBaselineCountsRemoved(result, f) ==
    IF Exists(f)
    THEN LET comparison == compareWithBaselineResults(result, f)
         IN  [result EXCEPT !.compared = TRUE,
                            !.comparison = comparison,
                            !.regressions = Cardinality(comparison.newFailures)
                                            + Cardinality(comparison.removedTests)]
    ELSE result

\* lines 966-975
WithBaseline(result, f) ==
    IF Exists(f)
    THEN LET comparison == compareWithBaselineResults(result, f)
         IN  [result EXCEPT !.compared = TRUE,
                            !.comparison = comparison,
                            !.regressions = Cardinality(comparison.newFailures)]
    ELSE result

\* the exit code without the CI flag's condition
ExitCodeAlways(ciMode, result) ==
    IF result.failed > 0 \/ result.regressions > 0 THEN 1 ELSE 0

\* lines 997-1001
ExitCode(ciMode, result) ==
    IF ciMode /\ (result.failed > 0 \/ result.regressions > 0) THEN 1 ELSE 0

\* lines 918-927: the config file is unreadable, the output format is json
\* and no --tests path is given: config is nil and config.Evals.Path panics
runEvalsPanic ==
    /\ evalPc = "idle"
    /\ evalPc' = "panicked"
    /\ evalExit' = 2
    /\ evalIn' = [evalIn EXCEPT !.outputFormat = "json"]
    /\ UNCHANGED <<evalResult, fs, proxyVars, runPc, flags, child, ctxCancelled, sigPc, session, report, exitStatus>>

\* lines 931-940: the test suite cannot be read or parsed
runEvalsNoSuite ==
    /\ evalPc = "idle"
    /\ evalPc' = "noSuite"
    /\ evalExit' = 1
    /\ \E outputFormat \in {"text", "json"} :
          evalIn' = [evalIn EXCEPT !.outputFormat = outputFormat, !.suite = << >>]
    /\ UNCHANGED <<evalResult, fs, proxyVars, runPc, flags, child, ctxCancelled, sigPc, session, report, exitStatus>>

\* lines 947-1001: the suite loaded; the tests, the comparison with the
\* baseline file, the results file of CI mode, the exit code
runEvals(CiModes) ==
    /\ evalPc = "idle"
    /\ \E ciMode \in CiModes :
          LET result == WithBaseline(RunTests(evalIn.suite), fs[BaselinePath])
          IN  /\ evalIn' = [evalIn EXCEPT !.ciMode = ciMode]
              /\ evalResult' = result
              /\ fs' = IF ciMode THEN [fs EXCEPT ![ResultsPath] = ResultFile(result)]
                       ELSE fs
              /\ evalExit' = ExitCode(ciMode, result)
    /\ evalPc' = "returned"
    /\ UNCHANGED <<proxyVars, runPc, flags, child, ctxCancelled, sigPc, session, report, exitStatus>>

(***************************************************************************)
(* The specification of a trace run: the proxy, its handlers, the child    *)
(* and runTrace.                                                           *)
(***************************************************************************)
\* a baseline left by an earlier run with --save-baseline
EarlierSession ==
    LET t == createTrace(1, "openai",
                 Request("Authorization" :> <<"Bearer secret123">>, JsonBody("req_gpt", 17)),
                 JsonBody("req_gpt", 17),
                 Upstream(200, JsonType, JsonBody("resp_openai", 40)),
                 JsonBody("resp_openai", 40), 2, 0)
    IN  [id |-> 0, startTime |-> 0, endTime |-> 1, traces |-> <<t>>,
         summary |-> calculateSummary(<<t>>, << >>)]

EvalIdle ==
    /\ evalPc = "idle"
    /\ evalIn = [suite |-> << >>, ciMode |-> FALSE, outputFormat |-> "text"]
    /\ evalResult = ZeroEvalResult
    /\ evalExit = 0 - 1

ProxyIdle ==
    /\ clock = 0
    /\ hs = [r \in Reqs |-> Idle]
    /\ traces = << >>
    /\ mu = 0
    /\ out = [r \in Reqs |-> NoResponse]

Init ==
    /\ ProxyIdle
    /\ accepting = FALSE
    /\ providers = {}
    /\ runPc = "start"
    /\ flags = NoFlags
    /\ child = NoChild
    /\ ctxCancelled = FALSE
    /\ sigPc = "waiting"
    /\ session = ZeroSession
    /\ fs = [traces |-> MissingFile, baseline |-> MissingFile, results |-> MissingFile]
    /\ report = NoReport
    /\ exitStatus = Running
    /\ EvalIdle

\* One run of `regrada trace` with its handlers interleaved, default flags and
\* writable files.
Next ==
    \/ \E r \in Reqs : handleRequestBegin(r, CoreRequests)
    \/ \E r \in Reqs : handleRequestUpstream(r, CoreUpstreams)
    \/ \E r \in Reqs : handleRequestLock(r)
    \/ \E r \in Reqs : handleRequestAppend(r)
    \/ \E r \in Reqs : handleRequestWrite(r)
    \/ Tick
    \/ runTraceStartProxy("")
    \/ runTraceBindFails
    \/ runTraceStartNoProxy
    \/ \E code \in {0, 1} : childExits(code)
    \/ childKilled
    \/ interrupt
    \/ interruptReturn
    \/ runTraceNoProxyReturn
    \/ runTraceShutdown
    \/ shutdownIdle
    \/ shutdownTimeout
    \/ runTraceDrain
    \/ runTraceFinish({""}, {FALSE}, {TRUE})

Spec == Init /\ [][Next]_vars

\* The same run, its clock readings left aside, with time passing for the
\* two calls of proxy.shutdown: server.Shutdown returns when no handler is
\* running or at the latest when its context's 5 s have passed, whatever the
\* handlers do.
NextShutdown ==
    \/ \E r \in Reqs : handleRequestBegin(r, CoreRequests)
    \/ \E r \in Reqs : handleRequestUpstream(r, CoreUpstreams)
    \/ \E r \in Reqs : handleRequestLock(r)
    \/ \E r \in Reqs : handleRequestAppend(r)
    \/ \E r \in Reqs : handleRequestWrite(r)
    \/ runTraceStartProxy("")
    \/ runTraceBindFails
    \/ runTraceStartNoProxy
    \/ \E code \in {0, 1} : childExits(code)
    \/ childKilled
    \/ interrupt
    \/ interruptReturn
    \/ runTraceNoProxyReturn
    \/ runTraceShutdown
    \/ shutdownIdle
    \/ shutdownTimeout
    \/ runTraceDrain
    \/ runTraceFinish({""}, {FALSE}, {TRUE})

SpecShutdown ==
    /\ Init
    /\ [][NextShutdown]_vars
    /\ WF_vars(shutdownIdle \/ shutdownTimeout)
    /\ WF_vars(interruptReturn)

(***************************************************************************)
(* One exchange through a serving proxy, over all request and upstream     *)
(* presets, with and without a custom provider configured.                 *)
(***************************************************************************)
\* the provider sections of the configuration files of the runs
Configs ==
    { DefaultConfig,
      [type |-> "anthropic", baseURL |-> ""],
      [type |-> "custom", baseURL |-> "http://llm.internal"] }

Capturing ==
    /\ ProxyIdle
    /\ accepting = TRUE
    /\ runPc = "capturing"
    /\ child = [state |-> "running", exitCode |-> 0]
    /\ ctxCancelled = FALSE
    /\ sigPc = "waiting"
    /\ session = [ZeroSession EXCEPT !.id = generateTraceID(0), !.startTime = 0]
    /\ fs = [traces |-> MissingFile, baseline |-> MissingFile, results |-> MissingFile]
    /\ report = NoReport
    /\ exitStatus = Running
    /\ EvalIdle

InitHandler ==
    /\ Capturing
    /\ \E config \in Configs :
          /\ flags = [NoFlags EXCEPT !.config = config]
          /\ providers = Providers(config.baseURL)

NextHandler ==
    \/ handleRequestBegin(1, AllRequests)
    \/ handleRequestUpstream(1, AllUpstreams)
    \/ handleRequestLock(1)
    \/ handleRequestAppend(1)
    \/ handleRequestWrite(1)
    \/ Tick

SpecHandler == InitHandler /\ [][NextHandler]_vars

(***************************************************************************)
(* The end of a trace run, from the proxy's shutdown on, over preset trace *)
(* lists, baseline files and flags.                                        *)
(***************************************************************************)
TracePresets ==
    { createTrace(1, "openai",
          Request("Authorization" :> <<"Bearer secret123">>, JsonBody("req_gpt", 17)),
          JsonBody("req_gpt", 17),
          Upstream(200, JsonType, JsonBody("resp_openai_tool", 90)),
          JsonBody("resp_openai_tool", 90), 2, 0),
      createTrace(1, "anthropic",
          Request("X-Api-Key" :> <<"sk-ant-1">>, JsonBody("req_claude", 20)),
          JsonBody("req_claude", 20),
          Upstream(200, JsonType, JsonBody("resp_anthropic", 80)),
          JsonBody("resp_anthropic", 80), 4, 0),
      createTrace(1, "openai",
          Request("Authorization" :> <<"Bearer secret123">>, TextBody(5)),
          TextBody(5),
          Upstream(200, JsonType, JsonBody("resp_openai", 40)),
          JsonBody("resp_openai", 40), 0, 0) }

TraceLists == UNION { [1..n -> TracePresets] : n \in 0..MaxTraces }

\* the sessions an earlier run can have written
EarlierSessions ==
    UNION { { [id |-> 0, startTime |-> 0, endTime |-> 0, traces |-> ts,
               summary |-> calculateSummary(ts, o)] :
                o \in Orderings(ToolSet(ts)) } : ts \in TraceLists }

InitSession ==
    /\ clock = 0
    /\ hs = [r \in Reqs |-> Idle]
    /\ traces \in TraceLists
    /\ mu = 0
    /\ out = [r \in Reqs |-> NoResponse]
    /\ accepting = FALSE
    /\ providers = {"openai", "anthropic"}
    /\ runPc = "stopped"
    /\ flags = NoFlags
    /\ child = [state |-> "exited", exitCode |-> 0]
    /\ ctxCancelled = FALSE
    /\ sigPc = "waiting"
    /\ session = [ZeroSession EXCEPT !.id = generateTraceID(0), !.startTime = 0]
    /\ \E f \in {MissingFile, MalformedFile, ResultFile(ZeroEvalResult)}
                \cup { SessionFile(e) : e \in EarlierSessions } :
          fs = [traces |-> MissingFile, baseline |-> f, results |-> MissingFile]
    /\ report = NoReport
    /\ exitStatus = Running
    /\ EvalIdle

NextSession ==
    \/ Tick
    \/ runTraceDrain
    \/ runTraceFinish({"", BaselinePath}, BOOLEAN, BOOLEAN)

SpecSession == InitSession /\ [][NextSession]_vars

(***************************************************************************)
(* One `regrada run`, over test suites and baseline files.  The lists are  *)
(* enumerated with their names in order; a name may repeat.                *)
(***************************************************************************)
InNameOrder(l) ==
    \A i \in 1..(Len(l) - 1) : NameIndex(l[i].name) <= NameIndex(l[i + 1].name)

CheckLists ==
    { <<"schema_valid", "tool_called:refund.create">>,
      <<"sentiment: positive", "INTENTIONAL_FAIL">> }

Suites ==
    { l \in UNION { [1..n -> [name : Range(Names), checks : CheckLists]] :
                      n \in 0..MaxTests } : InNameOrder(l) }

BaselineLists ==
    { l \in UNION { [1..n -> [name : Range(Names),
                              status : {"passed", "failed", "error"},
                              checkResults : {<< >>}]] :
                      n \in 0..MaxBaseline } : InNameOrder(l) }

\* the result file an earlier run wrote for the test results l
EarlierResult(l) ==
    LET passed == Cardinality({ i \in DOMAIN l : l[i].status = "passed" })
    IN  [ZeroEvalResult EXCEPT !.totalTests = Len(l), !.passed = passed,
                               !.failed = Len(l) - passed, !.testResults = l]

InitEval ==
    /\ ProxyIdle
    /\ accepting = FALSE
    /\ providers = {}
    /\ runPc = "start"
    /\ flags = NoFlags
    /\ child = NoChild
    /\ ctxCancelled = FALSE
    /\ sigPc = "waiting"
    /\ session = ZeroSession
    /\ report = NoReport
    /\ exitStatus = Running
    /\ evalPc = "idle"
    /\ evalResult = ZeroEvalResult
    /\ evalExit = 0 - 1
    /\ \E suite \in Suites :
          evalIn = [suite |-> suite, ciMode |-> FALSE, outputFormat |-> "text"]
    /\ \E f \in {MissingFile, MalformedFile, SessionFile(EarlierSession)}
                \cup { ResultFile(EarlierResult(l)) : l \in BaselineLists } :
          fs = [traces |-> MissingFile, baseline |-> f, results |-> MissingFile]

NextEval ==
    \/ runEvalsPanic
    \/ runEvalsNoSuite
    \/ runEvals(BOOLEAN)

SpecEval == InitEval /\ [][NextEval]_vars

(***************************************************************************)
(* Both comparisons: a `regrada run` or the end of a trace run.            *)
(***************************************************************************)
InitCompare == InitEval \/ InitSession

NextCompare ==
    \/ runEvalsPanic
    \/ runEvalsNoSuite
    \/ runEvals(BOOLEAN)
    \/ Tick
    \/ runTraceDrain
    \/ runTraceFinish({"", BaselinePath}, BOOLEAN, BOOLEAN)

SpecCompare == InitCompare /\ [][NextCompare]_vars

(***************************************************************************)
(* Runs in sequence in a project without a baseline file, or with a        *)
(* baseline of test results as the README's repository holds it: a trace   *)
(* run from its proxy's shutdown on, and a `regrada run`, in either order. *)
(***************************************************************************)
InitRuns ==
    /\ clock = 0
    /\ hs = [r \in Reqs |-> Idle]
    /\ traces \in TraceLists
    /\ mu = 0
    /\ out = [r \in Reqs |-> NoResponse]
    /\ accepting = FALSE
    /\ providers = Providers("")
    /\ runPc = "stopped"
    /\ flags = NoFlags
    /\ child = [state |-> "exited", exitCode |-> 0]
    /\ ctxCancelled = FALSE
    /\ sigPc = "waiting"
    /\ session = [ZeroSession EXCEPT !.id = generateTraceID(0), !.startTime = 0]
    /\ \E f \in {MissingFile}
                \cup { ResultFile(EarlierResult(l)) :
                         l \in { b \in BaselineLists : Len(b) <= 1 } } :
          fs = [traces |-> MissingFile, baseline |-> f, results |-> MissingFile]
    /\ report = NoReport
    /\ exitStatus = Running
    /\ evalPc = "idle"
    /\ evalResult = ZeroEvalResult
    /\ evalExit = 0 - 1
    /\ \E suite \in { l \in Suites : Len(l) <= 1 } :
          evalIn = [suite |-> suite, ciMode |-> FALSE, outputFormat |-> "text"]

NextRuns ==
    \/ runEvalsPanic
    \/ runEvalsNoSuite
    \/ runEvals(BOOLEAN)
    \/ Tick
    \/ runTraceDrain
    \/ runTraceFinish({"", BaselinePath}, BOOLEAN, BOOLEAN)

SpecRuns == InitRuns /\ [][NextRuns]_vars

(***************************************************************************)
(* One exchange over all presets, followed to the end of its trace run,    *)
(* with the default configuration and files that can be written.           *)
(***************************************************************************)
InitPayload ==
    /\ Capturing
    /\ flags = NoFlags
    /\ providers = Providers(DefaultConfig.baseURL)

NextPayload ==
    \/ handleRequestBegin(1, AllRequests)
    \/ handleRequestUpstream(1, AllUpstreams)
    \/ handleRequestLock(1)
    \/ handleRequestAppend(1)
    \/ handleRequestWrite(1)
    \/ Tick
    \/ childExits(0)
    \/ runTraceShutdown
    \/ shutdownIdle
    \/ shutdownTimeout
    \/ runTraceDrain
    \/ runTraceFinish({""}, {FALSE}, {TRUE})

SpecPayload == InitPayload /\ [][NextPayload]_vars

(***************************************************************************)
(* One `regrada run` without a baseline, over suites whose tests declare   *)
(* every list of checks.                                                   *)
(***************************************************************************)
Checks == {"schema_valid", "INTENTIONAL_FAIL", "custom_check"}

AllCheckLists == UNION { [1..n -> Checks] : n \in 0..MaxChecks }

CheckSuites ==
    UNION { [1..n -> [name : {"A"}, checks : AllCheckLists]] : n \in 0..MaxSuite }

InitTest ==
    /\ ProxyIdle
    /\ accepting = FALSE
    /\ providers = {}
    /\ runPc = "start"
    /\ flags = NoFlags
    /\ child = NoChild
    /\ ctxCancelled = FALSE
    /\ sigPc = "waiting"
    /\ session = ZeroSession
    /\ report = NoReport
    /\ exitStatus = Running
    /\ evalPc = "idle"
    /\ evalResult = ZeroEvalResult
    /\ evalExit = 0 - 1
    /\ \E suite \in CheckSuites :
          evalIn = [suite |-> suite, ciMode |-> FALSE, outputFormat |-> "text"]
    /\ fs = [traces |-> MissingFile, baseline |-> MissingFile, results |-> MissingFile]

SpecTest == InitTest /\ [][NextEval]_vars

(***************************************************************************)
(* Properties.                                                             *)
(***************************************************************************)
\* the connections whose request was forwarded and answered by the upstream
Forwarded == { r \in Reqs : hs[r].pc = "done" /\ ~hs[r].resp.err }

\* the connections whose request was refused or whose forwarding failed
Refused == { r \in Reqs : /\ hs[r].pc = "done"
                          /\ \/ targetProvider(hs[r].req) \notin providers
                             \/ hs[r].resp.err }

OnePerForwarded(d) ==
    /\ Len(d) = Cardinality(Forwarded)
    /\ \A r \in Forwarded : Cardinality({ i \in DOMAIN d : d[i].conn = r }) = 1
    /\ \A i \in DOMAIN d : d[i].latency >= 0

\* C1: when runTrace drains the proxy after every handler has returned, the
\* session gets exactly one trace record per forwarded request, none lost and
\* none duplicated, each with a latency that is not negative.
C1_DrainOnePerForwarded ==
    [][ (runPc = "stopped" /\ runPc' = "drained" /\ ActiveHandlers = {})
            => OnePerForwarded(session'.traces) ]_vars

\* two concurrent requests were forwarded and the drain returned both records
C1_Witness ==
    /\ runPc = "drained"
    /\ ActiveHandlers = {}
    /\ Cardinality(Forwarded) = 2
    /\ Len(session.traces) = 2
    /\ session.traces[1].conn # session.traces[2].conn

Finalized ==
    /\ session.endTime >= session.startTime
    /\ report.summarised
    /\ session.summary = calculateSummary(session.traces, session.summary.toolsCalled)
    /\ report.saveOk
    /\ fs[IF flags.outputFile = "" THEN TracesPath ELSE flags.outputFile]
         = SessionFile(session)

\* C3: a trace run whose monitored process has ended does not terminate
\* before its session is finalized, whichever way the process ended.
C3_EveryRunFinalizes ==
    (child.state = "exited" /\ exitStatus # Running) => Finalized

NameStatus(l) == [i \in DOMAIN l |-> <<l[i].name, l[i].status>>]

\* a `regrada run` has returned after comparing with a baseline of test results
Compared ==
    /\ evalPc = "returned"
    /\ evalResult.compared
    /\ fs[BaselinePath].kind = "eval"

BaselineStatus == ResultMap(fs[BaselinePath].result.testResults)
CurrentStatus == ResultMap(evalResult.testResults)

\* the lists of the comparison that name n
ListsWith(n) ==
    { l \in {"newFailures", "newPasses", "addedTests", "removedTests"} :
        n \in evalResult.comparison[l] }

\* C4: a name present in both lists is in new failures, and in no other
\* list, when it went from passed to failed; in new passes, and in no other
\* list, when it went from failed to passed; and in no list otherwise, be the
\* statuses equal or not.  A name only in the current list is in added tests
\* alone, a name only in the baseline in removed tests alone.
C4_ClassifiesPassedFailedOnly ==
    Compared =>
        \A n \in DOMAIN BaselineStatus \cup DOMAIN CurrentStatus :
            ListsWith(n) =
                IF n \notin DOMAIN BaselineStatus THEN {"addedTests"}
                ELSE IF n \notin DOMAIN CurrentStatus THEN {"removedTests"}
                ELSE IF BaselineStatus[n] = "passed" /\ CurrentStatus[n] = "failed"
                     THEN {"newFailures"}
                ELSE IF BaselineStatus[n] = "failed" /\ CurrentStatus[n] = "passed"
                     THEN {"newPasses"}
                ELSE {}

\* a test that errored in the baseline and fails now is in no list, next to
\* one that regressed
C4_Witness ==
    /\ Compared
    /\ \E n \in DOMAIN BaselineStatus \cap DOMAIN CurrentStatus :
          /\ BaselineStatus[n] = "error"
          /\ CurrentStatus[n] = "failed"
          /\ ListsWith(n) = {}
    /\ evalResult.comparison.newFailures # {}

\* C4 as stated: every name present in both lists with differing statuses is
\* in exactly one of new failures and new passes, every name present in one
\* list only is in exactly one of added and removed tests, and a name with
\* the same status in both is in no list.
C4_SymmetricComplete ==
    Compared =>
        \A n \in DOMAIN BaselineStatus \cup DOMAIN CurrentStatus :
            LET both == n \in DOMAIN BaselineStatus \cap DOMAIN CurrentStatus
            IN  /\ (both /\ BaselineStatus[n] # CurrentStatus[n])
                     => Cardinality(ListsWith(n) \cap {"newFailures", "newPasses"}) = 1
                /\ ~both
                     => Cardinality(ListsWith(n) \cap {"addedTests", "removedTests"}) = 1
                /\ (both /\ BaselineStatus[n] = CurrentStatus[n])
                     => ListsWith(n) = {}

AllPassed(l) == \A i \in DOMAIN l : l[i].status = "passed"

C6_ExitCode ==
    evalPc = "returned" =>
        /\ evalResult.failed
             = Cardinality({ i \in DOMAIN evalResult.testResults :
                               evalResult.testResults[i].status # "passed" })
        /\ evalResult.regressions
             = IF Exists(fs[BaselinePath])
               THEN Cardinality(evalResult.comparison.newFailures)
               ELSE 0
        /\ evalExit = 1 <=> (evalIn.ciMode
                             /\ (evalResult.failed > 0 \/ evalResult.regressions > 0))
        /\ evalExit \in {0, 1}

\* a run without the CI flag returns 0 although a regression was counted
C6_Witness ==
    /\ evalPc = "returned"
    /\ ~evalIn.ciMode
    /\ evalResult.regressions > 0
    /\ evalExit = 0

\* C7: an eval run compared with a baseline that holds its own test results
\* reports no new failure, new pass, added or removed test, and a trace run
\* compared with a baseline that holds its own session reports the call
\* count unchanged, no new or removed tool, no model change and a token
\* difference of 0.
C7_SelfComparison ==
    /\ ( /\ Compared
         /\ NameStatus(fs[BaselinePath].result.testResults)
              = NameStatus(evalResult.testResults) )
       => /\ evalResult.comparison = NoEvalComparison
          /\ evalResult.regressions = 0
    /\ ( /\ runPc = "done"
         /\ report.cmp.ran
         /\ fs[BaselinePath] = SessionFile(session) )
       => /\ report.cmp.callCount = "unchanged"
          /\ report.cmp.newTools = {}
          /\ report.cmp.removedTools = {}
          /\ report.cmp.modelChanged = {}
          /\ report.cmp.newModels = {}
          /\ report.cmp.tokenDiff = 0
          /\ report.cmp.tokenDirection = ""

\* a session with two tool calls is compared with itself
C7_Witness ==
    /\ runPc = "done"
    /\ report.cmp.ran
    /\ fs[BaselinePath] = SessionFile(session)
    /\ Len(session.summary.toolsCalled) = 2
    /\ session.summary.totalTokensIn > 0

\* the header keys that name a credential
Credential(key) == ToLower(key) \in {"authorization", "x-api-key", "api-key"}

\* the stored map m holds the placeholder, and none of the original values,
\* under every credential key of the original header h
Redacts(h, m) ==
    \A k \in DOMAIN h :
        Credential(k) =>
            /\ k \in DOMAIN m
            /\ m[k] = "[REDACTED]"
            /\ \A i \in DOMAIN h[k] : m[k] # h[k][i]

\* C8: in every stored trace, each request header and each response header
\* whose key is authorization, x-api-key or api-key in any letter case holds
\* the placeholder instead of its original value.
C8_Redaction ==
    \A i \in DOMAIN traces :
        LET h == hs[traces[i].conn]
        IN  h.pc \in {"write", "done"} =>
                /\ Redacts(h.req.headers, traces[i].reqHeaders)
                /\ Redacts(h.resp.headers, traces[i].respHeaders)

\* a request with an Authorization header met a response with an X-Api-Key
C8_Witness ==
    \E i \in DOMAIN traces :
        LET h == hs[traces[i].conn]
        IN  /\ h.pc = "done"
            /\ "Authorization" \in DOMAIN h.req.headers
            /\ "X-Api-Key" \in DOMAIN h.resp.headers
            /\ traces[i].reqHeaders["Authorization"] = "[REDACTED]"
            /\ traces[i].respHeaders["X-Api-Key"] = "[REDACTED]"
            /\ traces[i].respHeaders["Set-Cookie"] = "a=1, b=2"

\* the upstream of connection r answered with a gzip stream labelled gzip
GzipAnswered(r) ==
    /\ r \in Forwarded
    /\ HeaderGet(hs[r].resp.headers, "Content-Encoding") = "gzip"
    /\ hs[r].resp.body.enc = "gzip"

\* the payload of a gzip stream
Payload(b) == [b EXCEPT !.enc = "none", !.zsize = 0]

\* C9: a response labelled gzip whose body is a gzip stream reaches the
\* caller decompressed, without a Content-Encoding header and with the
\* decompressed length as Content-Length, and its trace holds the body and
\* the token counts of the decompressed payload.
C9_GzipDecompressed ==
    \A r \in Reqs :
        GzipAnswered(r) =>
            LET p == Payload(hs[r].resp.body)
            IN  /\ out[r].body = p
                /\ "Content-Encoding" \notin DOMAIN out[r].headers
                /\ out[r].headers["Content-Length"] = <<ToString(p.size)>>
                /\ \E i \in DOMAIN traces :
                      /\ traces[i].conn = r
                      /\ traces[i].respBody = p
                      /\ traces[i].tokensIn
                           = parseAPIDetails(hs[r].provider, hs[r].req.body, p).tokensIn
                      /\ traces[i].tokensOut
                           = parseAPIDetails(hs[r].provider, hs[r].req.body, p).tokensOut

\* a 31-byte gzip stream of a 40-byte OpenAI response was served and traced
C9_Witness ==
    \E r \in Reqs :
        /\ GzipAnswered(r)
        /\ hs[r].resp.body.zsize = 31
        /\ out[r].body.size = 40
        /\ out[r].headers["Content-Length"] = <<"40">>
        /\ \E i \in DOMAIN traces : traces[i].conn = r /\ traces[i].tokensIn = 10

\* C10: the caller gets the upstream's status and headers; Content-Length is
\* set to the length of the body written; Content-Encoding is removed only
\* when the body was gzip and has been decompressed, and a response in any
\* other encoding keeps its Content-Encoding header and its body.
C10_OnlyGzipLosesEncoding ==
    \A r \in Forwarded :
        LET resp == hs[r].resp
            decompressed == /\ HeaderGet(resp.headers, "Content-Encoding") = "gzip"
                            /\ resp.body.enc = "gzip"
        IN  /\ out[r].status = resp.status
            /\ \A k \in DOMAIN resp.headers \ {"Content-Encoding", "Content-Length"} :
                  k \in DOMAIN out[r].headers /\ out[r].headers[k] = resp.headers[k]
            /\ out[r].headers["Content-Length"] = <<ToString(BodyLen(out[r].body))>>
            /\ ("Content-Encoding" \in DOMAIN resp.headers /\ ~decompressed)
                 => /\ "Content-Encoding" \in DOMAIN out[r].headers
                    /\ out[r].headers["Content-Encoding"] = resp.headers["Content-Encoding"]
                    /\ out[r].body = resp.body

\* the connections whose request reached the forwarding step
Routed == { r \in Reqs : hs[r].provider # "" }

\* C11: a request without the X-Regrada-Target header is forwarded to the
\* provider the configuration names as its type, a request with the header
\* to the provider the header names.
C11_DefaultIsConfigured ==
    \A r \in Routed :
        IF "X-Regrada-Target" \in DOMAIN hs[r].req.headers
        THEN hs[r].provider = hs[r].req.headers["X-Regrada-Target"][1]
        ELSE hs[r].provider = flags.config.type

\* C12: with a baseline file that is missing or cannot be parsed, an eval run
\* returns a result without comparison and with a regression count of 0, and
\* a trace run reports no comparison.
C12_NoComparisonWithoutBaseline ==
    fs[BaselinePath].kind \in {"missing", "malformed"} =>
        /\ evalPc = "returned" => (~evalResult.compared /\ evalResult.regressions = 0)
        /\ runPc = "done" => ~report.cmp.ran

\* C13: neither an eval run nor a trace run without --save-baseline changes
\* the content of the baseline file.
C13_BaselineUntouched ==
    [][ ( \/ evalPc = "idle" /\ evalPc' # "idle"
          \/ runPc = "drained" /\ runPc' = "done" /\ ~flags'.saveBaseline )
            => fs'[BaselinePath] = fs[BaselinePath] ]_vars

\* C14: an eval run that compares has read a persisted eval result, and a
\* trace run that compares has read a persisted trace session.
C14_BaselineOfSameShape ==
    /\ (evalPc = "returned" /\ evalResult.compared) => fs[BaselinePath].kind = "eval"
    /\ (runPc = "done" /\ report.cmp.ran) => fs[BaselinePath].kind = "trace"

\* C15: an eval run does not crash, whatever the configuration file, the
\* output format and the tests path are.
C15_NeverCrashes == evalPc # "panicked"

\* C16: a trace run whose session file could not be written ends with an
\* error, without saving a baseline and without comparing.
C16_WriteFailureIsFatal ==
    (runPc = "done" /\ ~report.saveOk)
        => /\ exitStatus > 0
           /\ ~report.cmp.ran
           /\ ~(flags.saveBaseline /\ report.baselineOk)

\* C17: whatever the bodies of a forwarded request are, its handler has
\* appended a trace record and answered the caller, and a session that holds
\* such records is written to its file when the run ends.
C17_PayloadsNeverFail ==
    /\ \A r \in Forwarded :
          /\ out[r].status = hs[r].resp.status
          /\ \E i \in DOMAIN traces : traces[i].conn = r
    /\ (runPc = "done" /\ session.traces # << >>)
          => /\ report.saveOk
             /\ fs[TracesPath] = SessionFile(session)

\* the body the handler of a forwarded request holds after reading resp
HeldBody(resp) ==
    IF "Content-Encoding" \in DOMAIN resp.headers
       /\ resp.headers["Content-Encoding"][1] = "gzip"
    THEN IF resp.body.enc = "gzip" THEN Payload(resp.body) ELSE EmptyBody
    ELSE resp.body

\* the JSON object the bytes b hold, the empty object when they hold none
ObjectOf(b) ==
    IF b.enc = "none" /\ b.kind = "json" /\ ~b.q /\ DocOf(b.doc).t = "obj"
    THEN DocOf(b.doc).v
    ELSE NoFields

\* the string under the key "model" of the request bytes b, "" without one
RequestModel(b) ==
    IF "model" \in DOMAIN ObjectOf(b) /\ ObjectOf(b)["model"].t = "str"
    THEN ObjectOf(b)["model"].v
    ELSE ""

\* the traces of returned or answering handlers with their connection
Recorded ==
    { i \in DOMAIN traces : hs[traces[i].conn].pc \in {"write", "done"} }

\* C18: for a provider other than openai and anthropic the trace has zero
\* token counts and no tool call whatever the bodies are, and its model is
\* the string under "model" of the request body, empty when there is none.
C18_UnknownProviderKeepsModel ==
    \A i \in Recorded :
        traces[i].provider \notin {"openai", "anthropic"} =>
            /\ traces[i].tokensIn = 0
            /\ traces[i].tokensOut = 0
            /\ traces[i].toolCalls = << >>
            /\ traces[i].model = RequestModel(hs[traces[i].conn].req.body)

\* a custom provider answered with an OpenAI tool call to a request for gpt-4
C18_Witness ==
    \E i \in Recorded :
        /\ traces[i].provider = "custom"
        /\ hs[traces[i].conn].resp.body.doc = "resp_openai_tool"
        /\ traces[i].model = "gpt-4"
        /\ traces[i].tokensIn = 0
        /\ traces[i].toolCalls = << >>

\* C18 as stated: for a provider other than openai and anthropic every
\* extracted field is zero or empty, the model name included.
C18_UnknownProviderAllEmpty ==
    \A i \in Recorded :
        traces[i].provider \notin {"openai", "anthropic"} =>
            /\ traces[i].tokensIn = 0
            /\ traces[i].tokensOut = 0
            /\ traces[i].toolCalls = << >>
            /\ traces[i].model = ""

\* the number under key of the usage object of the bytes b, 0 without one
UsageNumber(b, key) ==
    LET o == ObjectOf(b)
    IN  IF /\ "usage" \in DOMAIN o
           /\ o["usage"].t = "obj"
           /\ key \in DOMAIN o["usage"].v
           /\ o["usage"].v[key].t = "num"
        THEN o["usage"].v[key].v
        ELSE 0

\* C19: the token counts of a trace are the numbers under prompt_tokens and
\* completion_tokens of the response's usage object for openai, under
\* input_tokens and output_tokens for anthropic, and 0 when the object or
\* the key is missing or holds no number; the OpenAI response with 10 and 5
\* yields 10 and 5.
C19_TokenCounts ==
    \A i \in Recorded :
        LET b == HeldBody(hs[traces[i].conn].resp)
        IN  /\ traces[i].provider = "openai" =>
                 /\ traces[i].tokensIn = UsageNumber(b, "prompt_tokens")
                 /\ traces[i].tokensOut = UsageNumber(b, "completion_tokens")
                 /\ b.doc = "resp_openai" =>
                      (traces[i].tokensIn = 10 /\ traces[i].tokensOut = 5)
            /\ traces[i].provider = "anthropic" =>
                 /\ traces[i].tokensIn = UsageNumber(b, "input_tokens")
                 /\ traces[i].tokensOut = UsageNumber(b, "output_tokens")

\* an openai response whose prompt_tokens is a string and which also carries
\* input_tokens: 0 in, 6 out
C19_Witness ==
    \E i \in Recorded :
        /\ traces[i].provider = "openai"
        /\ hs[traces[i].conn].resp.body.doc = "resp_usage_mixed"
        /\ traces[i].tokensIn = 0
        /\ traces[i].tokensOut = 6

\* C20: a run returns one test result per test case, each with one check
\* result per declared check in declaration order, failed exactly when one
\* of its check results did not pass and passed otherwise; Passed and Failed
\* count these statuses.
C20_OneResultPerCheck ==
    evalPc = "returned" =>
        LET rs == evalResult.testResults
        IN  /\ Len(rs) = Len(evalIn.suite)
            /\ \A i \in DOMAIN rs :
                  LET t == evalIn.suite[i]
                  IN  /\ rs[i].name = t.name
                      /\ Len(rs[i].checkResults) = Len(t.checks)
                      /\ \A j \in DOMAIN t.checks :
                            rs[i].checkResults[j].check = t.checks[j]
                      /\ rs[i].status =
                            IF \E j \in DOMAIN rs[i].checkResults :
                                  ~rs[i].checkResults[j].passed
                            THEN "failed" ELSE "passed"
            /\ evalResult.passed
                 = Cardinality({ i \in DOMAIN rs : rs[i].status = "passed" })
            /\ evalResult.failed
                 = Cardinality({ i \in DOMAIN rs : rs[i].status = "failed" })

\* a test without checks passed next to one whose first check failed
C20_Witness ==
    /\ evalPc = "returned"
    /\ Len(evalResult.testResults) = 2
    /\ evalIn.suite[1].checks = << >>
    /\ evalResult.testResults[1].status = "passed"
    /\ evalIn.suite[2].checks = <<"INTENTIONAL_FAIL", "custom_check">>
    /\ evalResult.testResults[2].status = "failed"
    /\ evalResult.passed = 1
    /\ evalResult.failed = 1

RECURSIVE Total(_, _)
\* the sum of f over the finite set S
Total(f, S) ==
    IF S = {} THEN 0
    ELSE LET x == CHOOSE y \in S : TRUE IN f[x] + Total(f, S \ {x})

\* C21: the summary of a finalized session is the function of its trace
\* list: total calls is the number of traces; the token and latency totals
\* are the sums over the traces; the by-provider counts sum to total calls;
\* each by-model count is the number of traces with that non-empty model, so
\* they sum to at most total calls; tools called holds each distinct tool
\* name of the traces once.  The file written holds the same summary.
C21_SummaryOfTraces ==
    (runPc = "done") =>
        LET ts == session.traces
            sm == session.summary
            path == IF flags.outputFile = "" THEN TracesPath ELSE flags.outputFile
        IN  /\ sm.totalCalls = Len(ts)
            /\ sm.totalTokensIn = Total([i \in DOMAIN ts |-> ts[i].tokensIn], DOMAIN ts)
            /\ sm.totalTokensOut = Total([i \in DOMAIN ts |-> ts[i].tokensOut], DOMAIN ts)
            /\ sm.totalLatency = Total([i \in DOMAIN ts |-> ts[i].latency], DOMAIN ts)
            /\ Total(sm.byProvider, DOMAIN sm.byProvider) = sm.totalCalls
            /\ DOMAIN sm.byModel = { ts[i].model : i \in DOMAIN ts } \ {""}
            /\ \A m \in DOMAIN sm.byModel :
                  sm.byModel[m] = Cardinality({ i \in DOMAIN ts : ts[i].model = m })
            /\ Total(sm.byModel, DOMAIN sm.byModel) <= sm.totalCalls
            /\ Len(sm.toolsCalled) = Cardinality(Range(sm.toolsCalled))
            /\ \A n \in Range(sm.toolsCalled) :
                  \E i \in DOMAIN ts : \E j \in DOMAIN ts[i].toolCalls :
                      ts[i].toolCalls[j].name = n
            /\ \A i \in DOMAIN ts : \A j \in DOMAIN ts[i].toolCalls :
                  ts[i].toolCalls[j].name \in Range(sm.toolsCalled)
            /\ report.saveOk => fs[path].session.summary = sm

\* a persisted session of two traces, one without a model name, with tools
C21_Witness ==
    /\ runPc = "done"
    /\ report.saveOk
    /\ Len(session.traces) = 2
    /\ \E i \in DOMAIN session.traces : session.traces[i].model = ""
    /\ Total(session.summary.byModel, DOMAIN session.summary.byModel) = 1
    /\ session.summary.totalTokensIn > 0
    /\ session.summary.toolsCalled # << >>

\* the summary the comparison of a finished trace run read from the baseline
BaselineSummary == fs[BaselinePath].session.summary

\* C22: a comparison of trace summaries reports a changed call count exactly
\* when the total calls differ; as new tools the names of the current set
\* missing from the baseline set and as tools no longer called the converse;
\* for each model of the current summary a usage change exactly when the
\* baseline counts it differently and a new model exactly when the baseline
\* has no entry for it; and a token change exactly when the sums of input
\* and output tokens differ, by the absolute difference, increased when the
\* current sum is larger and decreased when it is smaller.
C22_ComparisonReportsDifferences ==
    (runPc = "done" /\ report.cmp.ran) =>
        LET cur == session.summary
            base == BaselineSummary
            c == report.cmp
            curTokens == cur.totalTokensIn + cur.totalTokensOut
            baseTokens == base.totalTokensIn + base.totalTokensOut
        IN  /\ (c.callCount = "changed") <=> (cur.totalCalls # base.totalCalls)
            /\ c.callCount \in {"changed", "unchanged"}
            /\ c.newTools = Range(cur.toolsCalled) \ Range(base.toolsCalled)
            /\ c.removedTools = Range(base.toolsCalled) \ Range(cur.toolsCalled)
            /\ c.modelChanged \cup c.newModels \subseteq DOMAIN cur.byModel
            /\ \A m \in DOMAIN cur.byModel :
                  /\ m \in c.newModels <=> m \notin DOMAIN base.byModel
                  /\ m \in c.modelChanged <=>
                       (m \in DOMAIN base.byModel /\ base.byModel[m] # cur.byModel[m])
            /\ (c.tokenDirection # "") <=> (curTokens # baseTokens)
            /\ curTokens > baseTokens =>
                  (c.tokenDirection = "increased" /\ c.tokenDiff = curTokens - baseTokens)
            /\ curTokens < baseTokens =>
                  (c.tokenDirection = "decreased" /\ c.tokenDiff = baseTokens - curTokens)

\* fewer tokens and calls than the baseline, other tools and another model
C22_Witness ==
    /\ runPc = "done"
    /\ report.cmp.ran
    /\ fs[BaselinePath].kind = "trace"
    /\ report.cmp.tokenDirection = "decreased"
    /\ report.cmp.tokenDiff > 0
    /\ report.cmp.newTools # {}
    /\ report.cmp.removedTools # {}
    /\ report.cmp.newModels # {}
    /\ report.cmp.callCount = "changed"

\* C23: in every reachable state of the proxy, whatever the interleaving of
\* its handlers, no two records of the trace list have the same identifier.
C23_UniqueIds ==
    \A i, j \in DOMAIN traces : i # j => traces[i].id # traces[j].id

\* C24: the lock on the trace list is held by a handler only between its
\* Lock and the Unlock after its append, never while its upstream call is in
\* progress or while it writes; so whenever a handler waits for its upstream
\* the lock is free or held by a handler that is at its append, and a drain
\* or another append is not delayed by the waiting handler.
C24_LockOnlyAcrossAppend ==
    /\ mu # 0 => (mu \in Reqs /\ hs[mu].pc = "locked")
    /\ \A r \in Reqs : hs[r].pc \in {"idle", "upstream", "lock", "write", "done"} => mu # r
    /\ \A r \in Reqs : hs[r].pc = "locked" => mu = r

\* a handler holds the lock for its append while another waits for its
\* upstream
C24_Witness ==
    \E r, q \in Reqs :
        /\ hs[r].pc = "upstream"
        /\ hs[q].pc = "locked"
        /\ mu = q

\* C25: the list a drain returns is the trace list as it is when the drain
\* holds the lock, every record appended so far in append order, also while
\* handlers are still running; and a list once returned keeps its length and
\* content whatever is appended afterwards.
C25_DrainIsSnapshot ==
    [][ /\ (runPc = "stopped" /\ runPc' = "drained") => session'.traces = traces
        /\ runPc \in {"drained", "done"} => session'.traces = session.traces ]_vars

\* a handler appended its record after the drain had returned one record
C25_Witness ==
    /\ runPc \in {"drained", "done"}
    /\ Len(session.traces) = 1
    /\ Len(traces) = 2
    /\ session.traces[1] = traces[1]

\* proxy.shutdown has been called, by runTrace or by the signal goroutine
ShutdownCalled ==
    \/ sigPc # "waiting"
    \/ ~flags.noProxy /\ runPc \in {"shutdown", "stopped", "drained", "done"}

\* C26: once shutdown has been called the proxy accepts no new connection; a
\* further call, by runTrace after the signal goroutine or the converse,
\* changes nothing of the proxy and ends nothing with an error; and each
\* call returns, also when handlers stay in flight for ever.
C26_ShutdownIdempotentBounded ==
    /\ [][ ShutdownCalled =>
             /\ ~accepting /\ ~accepting'
             /\ \A r \in Reqs : hs[r].pc = "idle" => hs'[r].pc = "idle"
             /\ (runPc' = "shutdown" /\ runPc # "shutdown") \/ (sigPc' = "shutdown" /\ sigPc # "shutdown")
                  => /\ <<hs, traces, mu, out, providers>>' = <<hs, traces, mu, out, providers>>
                     /\ exitStatus' = Running ]_vars
    /\ (runPc = "shutdown") ~> (runPc = "stopped")
    /\ (sigPc = "shutdown") ~> (sigPc = "returned" \/ exitStatus # Running)

\* both calls were made and both returned while a handler is still in flight
C26_Witness ==
    /\ sigPc = "returned"
    /\ runPc = "stopped"
    /\ ActiveHandlers # {}
    /\ ~accepting

\* s is an initial part of t
IsPrefix(s, t) == Len(s) <= Len(t) /\ \A i \in DOMAIN s : s[i] = t[i]

\* C27: a record is added at the end of the trace list when its handler has
\* its upstream response and makes its append, whenever that handler started;
\* the records already in the list keep their places, and a list drained
\* from it has them in the same order.
C27_CompletionOrder ==
    [][ /\ IsPrefix(traces, traces')
        /\ \A r \in Reqs :
              (hs[r].pc = "locked" /\ hs'[r].pc = "write")
                 => traces' = Append(traces, hs[r].trace)
        /\ (~flags'.noProxy /\ runPc' \in {"drained", "done"})
              => IsPrefix(session'.traces, traces') ]_vars

\* the request accepted second is recorded first, in the list and the drain
C27_Witness ==
    /\ runPc = "drained"
    /\ Len(session.traces) = 2
    /\ session.traces[1].conn = 2
    /\ session.traces[2].conn = 1

\* the connections whose caller has received the upstream's response
Received == { r \in Reqs : out[r] \notin {NoResponse, HttpError(StatusBadGateway)} }

\* the records of connection r in the list d
RecordsOf(d, r) == { i \in DOMAIN d : d[i].conn = r }

\* C28: a caller that has received the response to a forwarded request finds
\* the request's one record in the trace list; hence the list drained after
\* the monitored process has ended holds one record for every request whose
\* response was received before, which are all of them when the process
\* ended only after receiving every response it asked for.
C28_RecordBeforeResponse ==
    [][ /\ \A r \in Received' : Cardinality(RecordsOf(traces', r)) = 1
        /\ (runPc = "stopped" /\ runPc' = "drained")
              => /\ child.state = "exited"
                 /\ \A r \in Received : Cardinality(RecordsOf(session'.traces, r)) = 1
        /\ (runPc = "drained" /\ runPc' = "done")
              => session'.traces = session.traces ]_vars

\* the process ended after its two responses and the session holds both
C28_Witness ==
    /\ runPc = "done"
    /\ Cardinality(Received) = 2
    /\ Len(session.traces) = 2

\* C29: every record the proxy appends is in the finalized session: from
\* the drain on, the proxy's trace list holds nothing that the session's
\* list does not hold.
C29_NoRecordLost ==
    (~flags.noProxy /\ runPc \in {"drained", "done"}) => traces = session.traces

\* C30: the counters of the result of a run satisfy 0 <= regressions <=
\* failed and passed + failed = total tests, whatever the suite, repeated
\* names included, and whatever the baseline file; so the exit code is 1
\* exactly in CI mode with a failed test, the regressions adding nothing.
C30_CountersBounded ==
    evalPc = "returned" =>
        /\ 0 <= evalResult.regressions
        /\ evalResult.regressions <= evalResult.failed
        /\ evalResult.passed >= 0
        /\ evalResult.passed + evalResult.failed = evalResult.totalTests
        /\ evalResult.totalTests = Len(evalIn.suite)
        /\ evalResult.regressions > 0 => evalResult.failed > 0
        /\ evalExit = IF evalIn.ciMode /\ evalResult.failed > 0 THEN 1 ELSE 0

\* a suite that names a test twice, both failing, against a baseline in
\* which it passed: one regression, two failed tests
C30_Witness ==
    /\ evalPc = "returned"
    /\ evalResult.regressions = 1
    /\ evalResult.failed = 2
    /\ \E i, j \in DOMAIN evalIn.suite :
          i # j /\ evalIn.suite[i].name = evalIn.suite[j].name
    /\ evalIn.ciMode
    /\ evalExit = 1

====
